---- MODULE Spec2Model ----
(***************************************************************************)
(* The crawl-parse-persist pipeline of the UTMN news scraper:              *)
(*   AsyncFetcher (src/src/scraper/async_fetcher.py),                      *)
(*   QueueManager (src/src/scraper/queue_manager.py),                      *)
(*   NewsStorage  (src/src/scraper/storage.py),                            *)
(*   parse_news_page (src/src/scraper/parser.py),                          *)
(*   main (src/scripts/run_scraper.py).                                    *)
(*                                                                         *)
(* Every asyncio task is a process.  One action is one step of a task from *)
(* one suspension point (await that really suspends) to the next; steps of *)
(* different tasks interleave freely.  asyncio.Queue.join() is modelled by *)
(* its contract: the caller continues once the unfinished count is zero.   *)
(* When main() raises, asyncio.run cancels every task that is left.        *)
(***************************************************************************)
EXTENDS Integers, Sequences, FiniteSets, TLC

\* ------------------------------------------------------------- bounds
NumWorkers == 2      \* worker tasks of a run (CPUs of the host)
Concurrency == 2     \* concurrency of the fetcher (semaphore size)

NoItem == [html |-> [raises |-> "none"], url |-> 0, id |-> 0]

\* ------------------------------------------------------------- the site
\* A listing page: the links of its "div.article_title > a" anchors, in
\* document order, and whether it carries "button#btn_get-news".
Page(ls, m) == [links |-> ls, more |-> m]

\* Listing roots: the base URL, then the configured categories.
BaseRoot == "base"

\* The category lists the fetcher is built with (None and [] both give []).
CategoriesChoices == {<<>>, <<"cat">>}

\* Article page bodies the server may send.  A field is the stripped text
\* of its selector, "" when the tag is absent or empty.
HtmlV1 == [title |-> "t1", day |-> "05", month |-> "jan", section |-> "sci",
           summary |-> "", content |-> "body1"]
HtmlV2 == [title |-> "t2", day |-> "06", month |-> "", section |-> "tech",
           summary |-> "lead", content |-> "body2"]
HtmlNoContent == [title |-> "t1", day |-> "05", month |-> "jan", section |-> "sci",
                  summary |-> "lead", content |-> ""]
HtmlNoTitle == [title |-> "", day |-> "05", month |-> "jan", section |-> "sci",
                summary |-> "lead", content |-> "body1"]
HtmlNoDate == [title |-> "t1", day |-> "", month |-> "", section |-> "sci",
               summary |-> "lead", content |-> "body1"]
HtmlNoSection == [title |-> "t1", day |-> "", month |-> "jan", section |-> "",
                  summary |-> "lead", content |-> "body1"]
\* A body on which BeautifulSoup raises (markup nested beyond the recursion
\* limit).
HtmlUnparsable == [raises |-> "RecursionError"]

\* Sites the crawl is run against: the page sequence of each listing root
\* and, per article URL, the bodies the server may answer with (an article
\* can be edited between two fetches).
Sites ==
  { [base |-> <<Page(<<1>>, FALSE)>>, cat |-> <<Page(<<1>>, FALSE)>>,
     art |-> <<{HtmlV1, HtmlV2}, {HtmlV1}>>],
    [base |-> <<Page(<<1>>, TRUE), Page(<<1, 2>>, TRUE)>>, cat |-> <<Page(<<>>, TRUE)>>,
     art |-> <<{HtmlV1}, {HtmlNoContent}>>],
    [base |-> <<Page(<<2, 2>>, TRUE)>>, cat |-> <<Page(<<1>>, FALSE)>>,
     art |-> <<{HtmlV1}, {HtmlV2, HtmlNoContent}>>],
    [base |-> <<Page(<<1, 2>>, FALSE)>>, cat |-> <<Page(<<>>, FALSE)>>,
     art |-> <<{HtmlV1, HtmlNoTitle, HtmlNoDate}, {HtmlNoSection, HtmlUnparsable}>>] }

\* max_pages values crawl() is called with; 0 stands for None (both falsy).
MaxPagesChoices == {0, 1, 2}

\* What the server sends for page n of a root: for a page number beyond
\* the last page, the last page once more (button included).
PageAt(s, root, n) ==
  IF n <= Len(s[root]) THEN s[root][n] ELSE s[root][Len(s[root])]

\* ------------------------------------------------------------- state
VARIABLES
  site,        \* the site crawled (input)
  max_pages,   \* crawl(max_pages) (input)
  categories,  \* fetcher.categories, as the urls of its entries
  config,      \* the category urls of the configuration (input)
  parsing_workers,  \* QueueManager(parsing_workers=...) as configured (input)
  cpu_count,   \* os.cpu_count() of the host, 0 for None (input)
  mpc,         \* main: "init" | "aborted" (raised before the fetcher was built)
               \*          | "running" | "closing" | "ended" | "failed"
  session,     \* fetcher.session: "none" | "open" | "closed"
  cpc,         \* crawl(): "new" | "lsleep" | "lwait" | "lreq" | "gather" | "done"
               \*          | "failed" (raised) | "cancelled"
  rootIdx,     \* index into urls_to_crawl of the category being paginated
  page,        \* crawl_category: page
  news_links,  \* crawl_category: news_links
  all_links,   \* crawl: all_news_links
  prod,        \* produce task per link: "sleep" | "wait" | "req" | "done"
               \*          | "failed" (raised) | "cancelled"
  sem,         \* free slots of fetcher.semaphore
  queue,       \* html_queue: the items waiting
  unfinished,  \* html_queue._unfinished_tasks
  scpc,        \* start_consumers(): "new" | "join" | "gather" | "done"
               \*          | "failed" (raised) | "cancelled"
  executor,    \* ProcessPoolExecutor: "none" | "open" | "shutdown"
  wstate,      \* consume task: "none" | "new" | "idle" | "parse" | "save" | "exited" | "cancelled"
  held,        \* the item a consume task has dequeued and not yet acknowledged
  cancelReq,   \* task.cancel() was called on the consume task
  wts,         \* scraped_at read by the save_news call in progress
  rows,        \* table news, in insertion (id) order
  clock,       \* datetime.now()
  puts,        \* history: the items put on the queue
  deq,         \* history: per item, the workers that dequeued it, in order
  acked,       \* history: per item, the task_done calls made for it
  outcome,     \* history: per item, how the loop iteration that took it went
  llog,        \* history: the listing fetches that ended, in order
  returned,    \* history: the list each crawl_category call returned, in order
  flog,        \* history: per link, how its fetch_page calls ended, in order
  lateGet,     \* history: session.get was called on the closed session
  db_path,     \* storage.db_path: "news.db" | ":memory:"
  schema,      \* where initialize() created table news: "none" | "file" |
               \*          "discarded" (a private in-memory database, closed)
  call,        \* the last NewsStorage call made from outside the pipeline
  saved,       \* history: the items given to save_news after initialize(),
               \*          each for a url not given before
  chat         \* the bot: the last page of news sent and its keyboard

vars == <<site, max_pages, categories, config, parsing_workers, cpu_count, mpc, session,
          cpc, rootIdx, page, news_links,
          all_links, prod, sem, queue, unfinished, scpc, executor, wstate, held,
          cancelReq, wts, rows, clock, puts, deq, acked, outcome, llog, returned,
          flog, lateGet, db_path, schema, call, saved, chat>>

crawlVars == <<cpc, rootIdx, page, news_links, all_links>>
poolVars == <<scpc, executor, wstate, held, cancelReq, wts>>
storeVars == <<rows, clock>>
histVars == <<puts, deq, acked, outcome>>
fetchLog == <<llog, returned, flog, lateGet>>
inputVars == <<site, max_pages, categories, config, parsing_workers, cpu_count>>
pipelineVars == <<mpc, session, crawlVars, prod, sem, queue, unfinished, poolVars,
                  histVars, fetchLog, inputVars>>
dbVars == <<db_path, schema, call, saved, chat>>

\* ------------------------------------------------------------- helpers
\* Mutant: the argument is taken as it is given.
WorkerCountAsGiven(n, cpus) == n

\* QueueManager.__init__:
\* `parsing_workers if parsing_workers > 0 else os.cpu_count() or 1`
WorkerCount(n, cpus) == IF n > 0 THEN n ELSE IF cpus # 0 THEN cpus ELSE 1

\* The consume tasks of start_consumers: `for _ in range(self.parsing_workers)`.
Workers == 1..WorkerCount(parsing_workers, cpu_count)

Range(s) == {s[i] : i \in 1..Len(s)}

Take(s, n) == SubSeq(s, 1, IF n < Len(s) THEN n ELSE Len(s))

CountIn(f, v) == Cardinality({i \in DOMAIN f : f[i] = v})

\* urls_to_crawl of crawl()
UrlsToCrawl == <<BaseRoot>> \o categories

\* The bot has sent nothing.  back and forward hold the callback data of
\* the buttons, <<>> for a button that is not offered.
NoChat == [op |-> "none", err |-> "none", offset |-> 0, section |-> <<>>,
           start_date |-> <<>>, end_date |-> <<>>, shown |-> 0, total |-> 0,
           back |-> <<>>, forward |-> <<>>]

\* No NewsStorage call has been made.
NoCall == [op |-> "none", err |-> "none", item |-> 0, section |-> <<>>,
           start_date |-> <<>>, end_date |-> <<>>, limit |-> 0, offset |-> 0,
           res |-> <<>>]

\* ------------------------------------------------------------- Init
\* The state main() is entered in, and the state in which its two tasks are
\* about to be created, for the inputs chosen.
Entered ==
  /\ mpc \in {"init", "running"}
  /\ categories = IF mpc = "running" THEN config ELSE <<>>
  /\ session = IF mpc = "running" THEN "open" ELSE "none"
  /\ cpc = "new"
  /\ rootIdx = 1
  /\ page = 1
  /\ news_links = <<>>
  /\ all_links = <<>>
  /\ prod = <<>>
  /\ sem = Concurrency
  /\ queue = <<>>
  /\ unfinished = 0
  /\ scpc = "new"
  /\ executor = "none"
  /\ wstate = [w \in Workers |-> "none"]
  /\ held = [w \in Workers |-> NoItem]
  /\ cancelReq = [w \in Workers |-> FALSE]
  /\ wts = [w \in Workers |-> 0]
  /\ rows = <<>>
  /\ clock = 1
  /\ puts = {}
  /\ deq = <<>>
  /\ acked = <<>>
  /\ outcome = <<>>
  /\ llog = <<>>
  /\ returned = <<>>
  /\ flog = <<>>
  /\ lateGet = FALSE
  /\ db_path = "news.db"
  /\ schema = IF mpc = "running" THEN "file" ELSE "none"
  /\ call = NoCall
  /\ saved = {}
  /\ chat = NoChat

\* Either main() of run_scraper.py is entered (mpc = "init"), or a caller
\* that passes the configured categories has initialized the storage, built
\* the fetcher and the queue manager, entered `async with fetcher` and is
\* creating the two tasks (mpc = "running").
Init ==
  /\ site \in Sites
  /\ max_pages \in MaxPagesChoices
  /\ config \in CategoriesChoices
  /\ parsing_workers = 0
  /\ cpu_count = NumWorkers
  /\ Entered

\* ------------------------------------------------------------- fetch_page
\* Mutant: the slot test is off by one.
CanAcquireOffByOne(s) == s >= 0

\* asyncio.Semaphore: acquire() passes only while a slot is free.
CanAcquire(s) == s > 0

Acquire(s) == s - 1

Release(s) == s + 1

\* asyncio.Queue(): maxsize defaults to 0, which means no limit.
QueueMaxSize == 0

\* Mutant: the queue is created with maxsize 1.
QueueFullAtOne(q) == Len(q) >= 1

\* Queue.full(): put() suspends while this holds.
QueueFull(q) == QueueMaxSize > 0 /\ Len(q) >= QueueMaxSize

QueuePut(q, item) == Append(q, item)

UnfinishedAfterPut(n) == n + 1

\* Mutant: task_done leaves the count as it is.
UnfinishedAfterTaskDoneKept(n) == n

UnfinishedAfterTaskDone(n) == n - 1

\* The fetch_page calls inside `async with self.semaphore`.
InRequest == (IF cpc = "lreq" THEN 1 ELSE 0) + CountIn(prod, "req")

\* The tasks of the run are scheduled: main() has not finished.
Live == mpc \in {"running", "closing"}

\* Mutant: fetch_page goes for the semaphore without the delay.
FetchPageEntryNoDelay(listing) == IF listing THEN "lwait" ELSE "wait"

\* fetch_page starts with `await asyncio.sleep(self.request_delay)`: where
\* a task that calls it suspends first.
FetchPageEntry(listing) == IF listing THEN "lsleep" ELSE "sleep"

\* ------------------------------------------------------------- crawl_category
\* Mutant: every anchor of the page is taken.
PageLinksAll(pg, seen) == pg.links

\* The links one listing page adds: every anchor whose link is not yet in
\* news_links (the links of the pages before it).
PageLinks(pg, seen) == SelectSeq(pg.links, LAMBDA l : ~(l \in Range(seen)))

\* Mutant: the button is not looked at.
StopAfterPageIgnoresButton(pg, links, cap) == cap # 0 /\ Len(links) >= cap

\* Pagination stops after this page: no button, or the cap is reached.
StopAfterPage(pg, links, cap) == ~pg.more \/ (cap # 0 /\ Len(links) >= cap)

\* Mutant: no task is created for the first link.
ProduceTasksSkipFirst(links) ==
  [i \in 1..Len(links) |-> IF i = 1 THEN "done" ELSE "sleep"]

\* tasks = [self.produce(link) for link in all_news_links]
ProduceTasks(links) == [i \in 1..Len(links) |-> FetchPageEntry(FALSE)]

\* Mutant: the page index is advanced by two.
NextPageSkipsOne(n) == n + 2

\* page += 1
NextPage(n) == n + 1

\* One entry of the listing log.
Fetched(res) == [root |-> rootIdx, page |-> page, res |-> res]

\* Mutant: crawl() does not look at the cap.
CapIgnored(links, cap) == FALSE

\* `if max_pages and len(all_news_links) >= max_pages:`
CapReached(links, cap) == cap # 0 /\ Len(links) >= cap

\* Mutant: only the links not collected under an earlier root are added.
ExtendWithNew(all, links) == all \o SelectSeq(links, LAMBDA l : ~(l \in Range(all)))

\* all_news_links.extend(links)
Extend(all, links) == all \o links

\* crawl(): the loop body after crawl_category returned `links`, and, when
\* the loop is left, the produce tasks handed to asyncio.gather.
CategoryReturns(links) ==
  LET all2 == Extend(all_links, links)
      capped == CapReached(all2, max_pages)
      all3 == IF capped THEN Take(all2, max_pages) ELSE all2
  IN  /\ all_links' = all3
      /\ returned' = Append(returned, links)
      /\ news_links' = <<>>
      /\ page' = 1
      /\ IF ~capped /\ rootIdx < Len(UrlsToCrawl)
           THEN /\ rootIdx' = rootIdx + 1
                /\ cpc' = FetchPageEntry(TRUE)
                /\ UNCHANGED <<prod, flog>>
           ELSE /\ rootIdx' = rootIdx
                /\ cpc' = IF all3 = <<>> THEN "done" ELSE "gather"
                /\ prod' = ProduceTasks(all3)
                /\ flog' = [i \in 1..Len(all3) |-> <<>>]

\* producer_task's first step: crawl() enters crawl_category(base_url) and
\* fetch_page suspends in asyncio.sleep(request_delay).
CrawlStart ==
  /\ Live
  /\ cpc = "new"
  /\ cpc' = FetchPageEntry(TRUE)
  /\ UNCHANGED <<rootIdx, page, news_links, all_links, prod, sem, queue, unfinished,
                 mpc, session>>
  /\ UNCHANGED <<poolVars, storeVars, histVars, fetchLog, inputVars, dbVars>>

\* fetch_page of a listing page: the delay has elapsed.
ListingDelay ==
  /\ cpc = "lsleep"
  /\ cpc' = "lwait"
  /\ UNCHANGED <<rootIdx, page, news_links, all_links, prod, sem, queue, unfinished,
                 mpc, session>>
  /\ UNCHANGED <<poolVars, storeVars, histVars, fetchLog, inputVars, dbVars>>

\* fetch_page of a listing page: `async with self.semaphore` entered and
\* session.get called.
ListingAcquire ==
  /\ cpc = "lwait"
  /\ CanAcquire(sem)
  /\ session = "open"
  /\ sem' = Acquire(sem)
  /\ cpc' = "lreq"
  /\ UNCHANGED <<rootIdx, page, news_links, all_links, prod, queue, unfinished,
                 mpc, session>>
  /\ UNCHANGED <<poolVars, storeVars, histVars, fetchLog, inputVars, dbVars>>

\* session.get on the closed session raises RuntimeError, which fetch_page
\* does not catch: the slot is given back and crawl() raises.
ListingRefused ==
  /\ cpc = "lwait"
  /\ CanAcquire(sem)
  /\ session = "closed"
  /\ cpc' = "failed"
  /\ llog' = Append(llog, Fetched("refused"))
  /\ lateGet' = TRUE
  /\ UNCHANGED <<rootIdx, page, news_links, all_links, prod, sem, queue, unfinished,
                 mpc, session, returned, flog>>
  /\ UNCHANGED <<poolVars, storeVars, histVars, inputVars, dbVars>>

\* The listing page arrived: crawl_category extracts its links and either
\* asks for the next page or returns.
ListingResponseOk ==
  /\ cpc = "lreq"
  /\ sem' = Release(sem)
  /\ llog' = Append(llog, Fetched("ok"))
  /\ LET pg == PageAt(site, UrlsToCrawl[rootIdx], page)
         page_links == PageLinks(pg, news_links)
         nl == news_links \o page_links
     IN  IF page_links = <<>>
           THEN CategoryReturns(news_links)
           ELSE IF StopAfterPage(pg, nl, max_pages)
                  THEN CategoryReturns(nl)
                  ELSE /\ news_links' = nl
                       /\ page' = NextPage(page)
                       /\ cpc' = FetchPageEntry(TRUE)
                       /\ UNCHANGED <<rootIdx, all_links, prod, returned, flog>>
  /\ UNCHANGED <<queue, unfinished, mpc, session, lateGet>>
  /\ UNCHANGED <<poolVars, storeVars, histVars, inputVars, dbVars>>

\* Mutant: a failed page makes crawl_category forget what it collected.
LinksAtBreakDropped(links) == <<>>

\* `if not page_html: ... break`, then `return news_links`: the links of the
\* earlier pages are what crawl_category returns.
LinksAtBreak(links) == links

\* The listing fetch failed (ClientError or timeout; an empty body counts
\* the same): fetch_page returns None and crawl_category returns what it
\* has.
ListingResponseFail ==
  /\ cpc = "lreq"
  /\ sem' = Release(sem)
  /\ llog' = Append(llog, Fetched("none"))
  /\ CategoryReturns(LinksAtBreak(news_links))
  /\ UNCHANGED <<queue, unfinished, mpc, session, lateGet>>
  /\ UNCHANGED <<poolVars, storeVars, histVars, inputVars, dbVars>>

\* The request raises something fetch_page does not catch (response.text()
\* raises UnicodeDecodeError on a body that does not decode): the exception
\* leaves fetch_page, crawl_category and crawl().
ListingResponseRaises ==
  /\ cpc = "lreq"
  /\ sem' = Release(sem)
  /\ llog' = Append(llog, Fetched("raised"))
  /\ cpc' = "failed"
  /\ UNCHANGED <<rootIdx, page, news_links, all_links, prod, queue, unfinished,
                 mpc, session, returned, flog, lateGet>>
  /\ UNCHANGED <<poolVars, storeVars, histVars, inputVars, dbVars>>

\* ------------------------------------------------------------- produce
ProduceDelay(i) ==
  /\ prod[i] = "sleep"
  /\ prod' = [prod EXCEPT ![i] = "wait"]
  /\ UNCHANGED <<crawlVars, sem, queue, unfinished, mpc, session>>
  /\ UNCHANGED <<poolVars, storeVars, histVars, fetchLog, inputVars, dbVars>>

ProduceAcquire(i) ==
  /\ prod[i] = "wait"
  /\ CanAcquire(sem)
  /\ session = "open"
  /\ sem' = Acquire(sem)
  /\ prod' = [prod EXCEPT ![i] = "req"]
  /\ UNCHANGED <<crawlVars, queue, unfinished, mpc, session>>
  /\ UNCHANGED <<poolVars, storeVars, histVars, fetchLog, inputVars, dbVars>>

\* session.get on the closed session raises RuntimeError out of produce.
ProduceRefused(i) ==
  /\ prod[i] = "wait"
  /\ CanAcquire(sem)
  /\ session = "closed"
  /\ prod' = [prod EXCEPT ![i] = "failed"]
  /\ flog' = [flog EXCEPT ![i] = Append(@, "refused")]
  /\ lateGet' = TRUE
  /\ UNCHANGED <<crawlVars, sem, queue, unfinished, mpc, session, llog, returned>>
  /\ UNCHANGED <<poolVars, storeVars, histVars, inputVars, dbVars>>

\* The article page arrived: the slot is released and (html, url) is put
\* on the queue in the same step.
ProduceResponseOk(i, h) ==
  /\ prod[i] = "req"
  /\ ~QueueFull(queue)
  /\ sem' = Release(sem)
  /\ prod' = [prod EXCEPT ![i] = "done"]
  /\ queue' = QueuePut(queue, [html |-> h, url |-> all_links[i], id |-> i])
  /\ unfinished' = UnfinishedAfterPut(unfinished)
  /\ puts' = puts \cup {[html |-> h, url |-> all_links[i], id |-> i]}
  /\ deq' = deq @@ (i :> <<>>)
  /\ acked' = acked @@ (i :> 0)
  /\ outcome' = outcome @@ (i :> "pending")
  /\ flog' = [flog EXCEPT ![i] = Append(@, "html")]
  /\ UNCHANGED <<crawlVars, mpc, session, llog, returned, lateGet>>
  /\ UNCHANGED <<poolVars, storeVars, inputVars, dbVars>>

\* The article fetch failed (or the body is empty): fetch_page returns
\* None (""), nothing is put.
ProduceResponseFail(i) ==
  /\ prod[i] = "req"
  /\ sem' = Release(sem)
  /\ prod' = [prod EXCEPT ![i] = "done"]
  /\ flog' = [flog EXCEPT ![i] = Append(@, "none")]
  /\ UNCHANGED <<crawlVars, queue, unfinished, mpc, session, llog, returned, lateGet>>
  /\ UNCHANGED <<poolVars, storeVars, histVars, inputVars, dbVars>>

\* The request raises something fetch_page does not catch: the produce
\* task ends with the exception.
ProduceResponseRaises(i) ==
  /\ prod[i] = "req"
  /\ sem' = Release(sem)
  /\ prod' = [prod EXCEPT ![i] = "failed"]
  /\ flog' = [flog EXCEPT ![i] = Append(@, "raised")]
  /\ UNCHANGED <<crawlVars, queue, unfinished, mpc, session, llog, returned, lateGet>>
  /\ UNCHANGED <<poolVars, storeVars, histVars, inputVars, dbVars>>

\* asyncio.gather(*tasks) of crawl() completes: crawl() returns.
CrawlGatherDone ==
  /\ cpc = "gather"
  /\ \A i \in DOMAIN prod : prod[i] = "done"
  /\ cpc' = "done"
  /\ UNCHANGED <<rootIdx, page, news_links, all_links, prod, sem, queue, unfinished,
                 mpc, session>>
  /\ UNCHANGED <<poolVars, storeVars, histVars, fetchLog, inputVars, dbVars>>

\* asyncio.gather(*tasks) passes on the first exception of a produce task:
\* crawl() raises while the other produce tasks keep running.
CrawlGatherRaises ==
  /\ cpc = "gather"
  /\ \E i \in DOMAIN prod : prod[i] = "failed"
  /\ cpc' = "failed"
  /\ UNCHANGED <<rootIdx, page, news_links, all_links, prod, sem, queue, unfinished,
                 mpc, session>>
  /\ UNCHANGED <<poolVars, storeVars, histVars, fetchLog, inputVars, dbVars>>

\* ------------------------------------------------------------- parse_news_page
\* f"{day} {month}".strip()
DateStr(day, month) ==
  IF day = "" THEN month
  ELSE IF month = "" THEN day
  ELSE day \o " " \o month

None == [url |-> 0]

\* An exception is raised inside the `try` block.
SoupRaises(h) == "raises" \in DOMAIN h

\* Mutant: the summary is required as well.
ParseNewsPageNeedsSummary(h, u) ==
  IF SoupRaises(h)
    THEN None
    ELSE LET date_str == DateStr(h.day, h.month)
         IN  IF /\ h.title # "" /\ date_str # "" /\ h.section # ""
                /\ h.summary # "" /\ h.content # ""
               THEN [url |-> u, title |-> h.title, date |-> date_str,
                     section |-> h.section, summary |-> h.summary,
                     content |-> h.content]
               ELSE None

\* The record parse_news_page returns; None when a key field is empty and
\* when `except Exception` caught something.
ParseNewsPage(h, u) ==
  IF SoupRaises(h)
    THEN None
    ELSE LET date_str == DateStr(h.day, h.month)
         IN  IF h.title # "" /\ date_str # "" /\ h.section # "" /\ h.content # ""
               THEN [url |-> u, title |-> h.title, date |-> date_str,
                     section |-> h.section, summary |-> h.summary,
                     content |-> h.content]
               ELSE None

\* ------------------------------------------------------------- NewsStorage
\* Mutant: the url column carries no UNIQUE constraint.
UrlStoredNotEnforced(rs, u) == FALSE

\* The UNIQUE constraint on news.url rejects the INSERT.
UrlStored(rs, u) == \E k \in 1..Len(rs) : rs[k].url = u

\* db.execute(INSERT ...) and db.commit(): the new table content and the
\* exception raised, if any.
Insert(rs, a, ts) ==
  IF UrlStored(rs, a.url)
    THEN [rows |-> rs, err |-> "IntegrityError"]
    ELSE [rows |-> Append(rs, [id |-> Len(rs) + 1, url |-> a.url, title |-> a.title,
                               date |-> a.date, section |-> a.section,
                               summary |-> a.summary, content |-> a.content,
                               scraped_at |-> ts]),
          err |-> "none"]

\* Mutant: INSERT OR REPLACE, the later write overwrites the stored row.
SaveNewsReplace(rs, a, ts) ==
  IF UrlStored(rs, a.url)
    THEN [rows |-> [k \in 1..Len(rs) |->
                      IF rs[k].url = a.url
                        THEN [id |-> rs[k].id, url |-> a.url, title |-> a.title,
                              date |-> a.date, section |-> a.section,
                              summary |-> a.summary, content |-> a.content,
                              scraped_at |-> ts]
                        ELSE rs[k]],
          err |-> "none"]
    ELSE Insert(rs, a, ts)

\* save_news: `except aiosqlite.IntegrityError` swallows the rejection.
SaveNews(rs, a, ts) ==
  LET r == Insert(rs, a, ts)
  IN  [rows |-> r.rows, err |-> IF r.err = "IntegrityError" THEN "none" ELSE r.err]

\* ------------------------------------------------------------- text
\* A text value of the store (section, date) is the sequence of its code
\* points; None and "" are both <<>> (both falsy).

\* str.lower() on one character: the Latin and the Cyrillic capitals.
Lower(c) == IF c \in 65..90 \/ c \in 1040..1071 THEN c + 32 ELSE c

LowerStr(t) == [i \in 1..Len(t) |-> Lower(t[i])]

\* `sub in t` of Python
Contains(sub, t) ==
  \E i \in 0..(Len(t) - Len(sub)) : SubSeq(t, i + 1, i + Len(sub)) = sub

\* The case folding of SQLite's LIKE: ASCII letters only.
LikeFold(c) == IF c \in 65..90 THEN c + 32 ELSE c

\* text LIKE pattern of SQLite: % (37) matches any run of characters,
\* _ (95) any one character, every other character itself up to LikeFold.
RECURSIVE Like(_, _)
Like(t, pattern) ==
  IF pattern = <<>> THEN t = <<>>
  ELSE IF Head(pattern) = 37
    THEN \E k \in 0..Len(t) : Like(SubSeq(t, k + 1, Len(t)), Tail(pattern))
  ELSE IF t = <<>> THEN FALSE
  ELSE IF Head(pattern) = 95 THEN Like(Tail(t), Tail(pattern))
  ELSE LikeFold(Head(pattern)) = LikeFold(Head(t)) /\ Like(Tail(t), Tail(pattern))

\* a < b for TEXT values under the BINARY collation.
TextLess(a, b) ==
  \E i \in 1..Len(b) :
    /\ \A j \in 1..(i - 1) : j <= Len(a) /\ a[j] = b[j]
    /\ i > Len(a) \/ (i <= Len(a) /\ a[i] < b[i])

TextLeq(a, b) == a = b \/ TextLess(a, b)

\* ------------------------------------------------------------- get_news
\* The connection aiosqlite.connect(self.db_path) gives: ":memory:" opens a
\* new, empty database on every call.
Connect(path, sch, rs) ==
  IF path = ":memory:"
    THEN [table |-> FALSE, rows |-> <<>>]
    ELSE [table |-> sch = "file", rows |-> rs]

\* Mutant: CREATE TABLE without IF NOT EXISTS.
CreateTableUnconditional(db) ==
  IF db.table THEN [table |-> TRUE, err |-> "OperationalError"]
  ELSE [table |-> TRUE, err |-> "none"]

\* CREATE TABLE IF NOT EXISTS news (...) and commit
CreateTable(db) == [table |-> TRUE, err |-> "none"]

\* The WHERE clause built from the filters that are given.
Where(r, section, start_date, end_date) ==
  /\ section # <<>> => Like(r.section, <<37>> \o section \o <<37>>)
  /\ start_date # <<>> => TextLeq(start_date, r.date)
  /\ end_date # <<>> => TextLeq(r.date, end_date)

\* Mutant: no ORDER BY, the rows come in rowid order.
OrderByRowid(rs) == rs

\* ORDER BY date DESC: rows of equal date stay in rowid order.
OrderByDateDesc(rs) ==
  LET pos(k) == Cardinality({j \in 1..Len(rs) :
                   \/ TextLess(rs[k].date, rs[j].date)
                   \/ (rs[j].date = rs[k].date /\ j <= k)})
  IN  [p \in 1..Len(rs) |-> rs[CHOOSE k \in 1..Len(rs) : pos(k) = p]]

\* LIMIT ? OFFSET ?
LimitOffset(rs, limit, offset) ==
  SubSeq(rs, offset + 1, IF offset + limit < Len(rs) THEN offset + limit ELSE Len(rs))

\* The Python filter applied to the fetched rows when section is given.
SectionFilter(rs, section) ==
  IF section # <<>>
    THEN SelectSeq(rs, LAMBDA r : Contains(LowerStr(section), LowerStr(r.section)))
    ELSE rs

\* get_news: the list returned and the exception raised, if any.
GetNews(db, section, start_date, end_date, limit, offset) ==
  IF ~db.table
    THEN [res |-> <<>>, err |-> "OperationalError"]
    ELSE LET matching == SelectSeq(db.rows,
                                   LAMBDA r : Where(r, section, start_date, end_date))
             fetched == LimitOffset(OrderByDateDesc(matching), limit, offset)
         IN  [res |-> SectionFilter(fetched, section), err |-> "none"]

\* save_news on a connection: without table news the INSERT raises
\* OperationalError, which save_news does not catch.
StorageSaveNews(db, a, ts) ==
  IF ~db.table
    THEN [rows |-> db.rows, err |-> "OperationalError"]
    ELSE SaveNews(db.rows, a, ts)

\* ------------------------------------------------------------- start_consumers
\* Mutant: waits for an empty queue instead of join().
JoinUnblocksWhenEmpty(q, n) == q = <<>>

\* await self.html_queue.join() lets the caller continue.
JoinUnblocks(q, n) == n = 0

AllCancelRequested == [w \in Workers |-> TRUE]

\* consumer_task's first step: the pool and the consume tasks are created;
\* when join() has nothing to wait for, the tasks are cancelled at once.
StartConsumers ==
  /\ Live
  /\ scpc = "new"
  /\ executor' = "open"
  /\ wstate' = [w \in Workers |-> "new"]
  /\ IF JoinUnblocks(queue, unfinished)
       THEN /\ cancelReq' = AllCancelRequested
            /\ scpc' = "gather"
       ELSE /\ cancelReq' = cancelReq
            /\ scpc' = "join"
  /\ UNCHANGED <<held, wts, crawlVars, prod, sem, queue, unfinished, mpc, session>>
  /\ UNCHANGED <<storeVars, histVars, fetchLog, inputVars, dbVars>>

\* ProcessPoolExecutor(max_workers=...) raises (more workers than the
\* platform allows): start_consumers raises before any task is created.
StartConsumersRaises ==
  /\ Live
  /\ scpc = "new"
  /\ scpc' = "failed"
  /\ UNCHANGED <<executor, wstate, held, cancelReq, wts, crawlVars, prod, sem, queue,
                 unfinished, mpc, session>>
  /\ UNCHANGED <<storeVars, histVars, fetchLog, inputVars, dbVars>>

\* join() returns; every consume task is cancelled; gather is awaited.
JoinReturns ==
  /\ scpc = "join"
  /\ JoinUnblocks(queue, unfinished)
  /\ cancelReq' = AllCancelRequested
  /\ scpc' = "gather"
  /\ UNCHANGED <<executor, wstate, held, wts, crawlVars, prod, sem, queue, unfinished,
                 mpc, session>>
  /\ UNCHANGED <<storeVars, histVars, fetchLog, inputVars, dbVars>>

WorkerFinished(w) == wstate[w] \in {"exited", "cancelled"}

\* asyncio.gather(*tasks, return_exceptions=True) completes; leaving the
\* `with` block shuts the process pool down; start_consumers returns.
ConsumersGatherDone ==
  /\ scpc = "gather"
  /\ \A w \in Workers : WorkerFinished(w)
  /\ executor' = "shutdown"
  /\ scpc' = "done"
  /\ UNCHANGED <<wstate, held, cancelReq, wts, crawlVars, prod, sem, queue, unfinished,
                 mpc, session>>
  /\ UNCHANGED <<storeVars, histVars, fetchLog, inputVars, dbVars>>

\* ------------------------------------------------------------- consume
\* Mutant: get() hands the head out without taking it off the queue.
QueueAfterGetKeepsHead(q) == q

\* Queue.get(): the queue once its head has been handed out.
QueueAfterGet(q) == Tail(q)

\* The article a worker is saving.
ArticleOf(w) == ParseNewsPage(held[w].html, held[w].url)

\* self.html_queue.task_done() for the item the worker holds, then back to
\* the top of the loop; `how` is recorded for the item.
TaskDone(w, how) ==
  /\ unfinished' = UnfinishedAfterTaskDone(unfinished)
  /\ acked' = [acked EXCEPT ![held[w].id] = @ + 1]
  /\ outcome' = [outcome EXCEPT ![held[w].id] = how]
  /\ held' = [held EXCEPT ![w] = NoItem]
  /\ wstate' = [wstate EXCEPT ![w] = "idle"]

\* Mutant: the handler logs but does not acknowledge.
ExceptHandlerNoAck(w, how) ==
  /\ outcome' = [outcome EXCEPT ![held[w].id] = how]
  /\ held' = [held EXCEPT ![w] = NoItem]
  /\ wstate' = [wstate EXCEPT ![w] = "idle"]
  /\ UNCHANGED <<unfinished, acked>>

\* Mutant: the handler acknowledges and re-raises, ending the task.
ExceptHandlerReraises(w, how) ==
  /\ unfinished' = UnfinishedAfterTaskDone(unfinished)
  /\ acked' = [acked EXCEPT ![held[w].id] = @ + 1]
  /\ outcome' = [outcome EXCEPT ![held[w].id] = how]
  /\ held' = [held EXCEPT ![w] = NoItem]
  /\ wstate' = [wstate EXCEPT ![w] = "exited"]

\* Mutant: the handler acknowledges the item twice.
ExceptHandlerAcksTwice(w, how) ==
  /\ unfinished' = UnfinishedAfterTaskDone(UnfinishedAfterTaskDone(unfinished))
  /\ acked' = [acked EXCEPT ![held[w].id] = @ + 2]
  /\ outcome' = [outcome EXCEPT ![held[w].id] = how]
  /\ held' = [held EXCEPT ![w] = NoItem]
  /\ wstate' = [wstate EXCEPT ![w] = "idle"]

\* `except Exception as e:` logs and acknowledges the item.
ExceptHandler(w, how) == TaskDone(w, how)

\* The task's first step finds the queue empty and suspends in get().
WorkerWaits(w) ==
  /\ wstate[w] = "new"
  /\ ~cancelReq[w]
  /\ queue = <<>>
  /\ wstate' = [wstate EXCEPT ![w] = "idle"]
  /\ UNCHANGED <<scpc, executor, held, cancelReq, wts, crawlVars, prod, sem, queue,
                 unfinished, mpc, session>>
  /\ UNCHANGED <<storeVars, histVars, fetchLog, inputVars, dbVars>>

\* get() returns an item; parse_news_page is submitted to the pool.
WorkerGets(w) ==
  /\ wstate[w] \in {"new", "idle"}
  /\ ~cancelReq[w]
  /\ queue # <<>>
  /\ held' = [held EXCEPT ![w] = Head(queue)]
  /\ queue' = QueueAfterGet(queue)
  /\ deq' = [deq EXCEPT ![Head(queue).id] = Append(@, w)]
  /\ wstate' = [wstate EXCEPT ![w] = "parse"]
  /\ UNCHANGED <<scpc, executor, cancelReq, wts, crawlVars, prod, sem, unfinished,
                 mpc, session, puts, acked, outcome>>
  /\ UNCHANGED <<storeVars, fetchLog, inputVars, dbVars>>

\* Mutant: save_news is called whatever the parser returned.
SaveAnyResult(result) == TRUE

\* `if result:` a record is saved, None is not.
SaveResult(result) == result # None

\* The pool delivers the parse result: None is acknowledged at once, a
\* record starts save_news, which reads the clock and suspends.
WorkerParsed(w) ==
  /\ wstate[w] = "parse"
  /\ ~cancelReq[w]
  /\ IF ~SaveResult(ArticleOf(w))
       THEN /\ TaskDone(w, "parse_none")
            /\ UNCHANGED <<wts, clock>>
       ELSE /\ wstate' = [wstate EXCEPT ![w] = "save"]
            /\ wts' = [wts EXCEPT ![w] = clock]
            /\ clock' = clock + 1
            /\ UNCHANGED <<held, unfinished, acked, outcome>>
  /\ UNCHANGED <<scpc, executor, cancelReq, crawlVars, prod, sem, queue, mpc, session,
                 rows, puts, deq>>
  /\ UNCHANGED <<fetchLog, inputVars, dbVars>>

\* run_in_executor raises (a broken pool).
WorkerParseRaises(w) ==
  /\ wstate[w] = "parse"
  /\ ~cancelReq[w]
  /\ ExceptHandler(w, "parse_raised")
  /\ UNCHANGED <<scpc, executor, cancelReq, wts, crawlVars, prod, sem, queue, mpc,
                 session, puts, deq>>
  /\ UNCHANGED <<storeVars, fetchLog, inputVars, dbVars>>

\* save_news returns: the row is inserted unless its url is stored already.
WorkerSaved(w) ==
  /\ wstate[w] = "save"
  /\ ~cancelReq[w]
  /\ LET r == SaveNews(rows, ArticleOf(w), wts[w])
     IN  /\ rows' = r.rows
         /\ IF r.err = "none"
              THEN TaskDone(w, "saved")
              ELSE ExceptHandler(w, "save_raised")
  /\ UNCHANGED <<scpc, executor, cancelReq, wts, crawlVars, prod, sem, queue, mpc,
                 session, clock, puts, deq>>
  /\ UNCHANGED <<fetchLog, inputVars, dbVars>>

\* save_news raises before anything is committed (the database is locked).
WorkerSaveRaises(w) ==
  /\ wstate[w] = "save"
  /\ ~cancelReq[w]
  /\ ExceptHandler(w, "save_raised")
  /\ UNCHANGED <<scpc, executor, cancelReq, wts, crawlVars, prod, sem, queue, mpc,
                 session, puts, deq>>
  /\ UNCHANGED <<storeVars, fetchLog, inputVars, dbVars>>

\* CancelledError reaches the task at its next step.  A task that never ran
\* ends cancelled; otherwise `except asyncio.CancelledError: break` leaves
\* the loop without task_done.  A save in progress may or may not have
\* committed.
WorkerCancelled(w) ==
  /\ cancelReq[w]
  /\ wstate[w] \in {"new", "idle", "parse", "save"}
  /\ wstate' = [wstate EXCEPT ![w] = IF wstate[w] = "new" THEN "cancelled" ELSE "exited"]
  /\ \E committed \in BOOLEAN :
       rows' = IF wstate[w] = "save" /\ committed
                 THEN SaveNews(rows, ArticleOf(w), wts[w]).rows
                 ELSE rows
  /\ UNCHANGED <<scpc, executor, held, cancelReq, wts, crawlVars, prod, sem, queue,
                 unfinished, mpc, session, clock>>
  /\ UNCHANGED <<histVars, fetchLog, inputVars, dbVars>>

\* ------------------------------------------------------------- main
\* The keyword arguments main() passes to AsyncFetcher(...).
FetcherArguments ==
  {"base_url", "concurrency", "timeout", "user_agent", "request_delay", "html_queue"}

\* The parameters of AsyncFetcher.__init__ that have no default.
FetcherRequired ==
  {"base_url", "categories", "concurrency", "timeout", "user_agent", "request_delay",
   "html_queue"}

\* main() of run_scraper.py up to `async with fetcher`: the storage is
\* initialized, then the fetcher is built.  A call that leaves a required
\* parameter out raises TypeError and main() ends there.
MainBuilds ==
  /\ mpc = "init"
  /\ schema' = "file"
  /\ IF FetcherRequired \subseteq FetcherArguments
       THEN /\ mpc' = "running"
            /\ session' = "open"
            /\ categories' = IF "categories" \in FetcherArguments THEN config ELSE <<>>
       ELSE /\ mpc' = "aborted"
            /\ UNCHANGED <<session, categories>>
  /\ UNCHANGED <<site, max_pages, config, parsing_workers, cpu_count, crawlVars, prod, sem,
                 queue, unfinished>>
  /\ UNCHANGED <<poolVars, storeVars, histVars, fetchLog, db_path, call, saved, chat>>

\* Mutant: main() awaits the producer task only.
MainEndsOnProducerOnly ==
  /\ mpc = "running"
  /\ cpc = "done"
  /\ mpc' = "ended"
  /\ session' = "closed"
  /\ UNCHANGED <<crawlVars, prod, sem, queue, unfinished>>
  /\ UNCHANGED <<poolVars, storeVars, histVars, fetchLog, inputVars, dbVars>>

\* asyncio.gather(producer_task, consumer_task) completes; leaving
\* `async with fetcher` closes the session.
MainEnds ==
  /\ mpc = "running"
  /\ cpc = "done"
  /\ scpc = "done"
  /\ mpc' = "ended"
  /\ session' = "closed"
  /\ UNCHANGED <<crawlVars, prod, sem, queue, unfinished>>
  /\ UNCHANGED <<poolVars, storeVars, histVars, fetchLog, inputVars, dbVars>>

\* asyncio.gather(producer_task, consumer_task) passes on the exception of
\* the task that raised; `async with fetcher` runs __aexit__, which closes
\* the session and suspends until its connections are closed.
MainGatherRaises ==
  /\ mpc = "running"
  /\ cpc = "failed" \/ scpc = "failed"
  /\ mpc' = "closing"
  /\ session' = "closed"
  /\ UNCHANGED <<crawlVars, prod, sem, queue, unfinished>>
  /\ UNCHANGED <<poolVars, storeVars, histVars, fetchLog, inputVars, dbVars>>

Pending(pc) == pc \in {"new", "lsleep", "lwait", "lreq", "sleep", "wait", "req",
                       "gather", "join"}

\* main() raises: asyncio.run calls cancel() on every task that is left.
\* crawl(), the produce tasks and start_consumers end at once (a request
\* gives its slot back, leaving the `with` block shuts the pool down); a
\* consume task handles its CancelledError in its own next step.
MainRaised ==
  /\ mpc = "closing"
  /\ mpc' = "failed"
  /\ cpc' = IF Pending(cpc) THEN "cancelled" ELSE cpc
  /\ prod' = [i \in DOMAIN prod |-> IF Pending(prod[i]) THEN "cancelled" ELSE prod[i]]
  /\ sem' = sem + InRequest
  /\ scpc' = IF Pending(scpc) THEN "cancelled" ELSE scpc
  /\ executor' = IF executor = "open" THEN "shutdown" ELSE executor
  /\ cancelReq' = [w \in Workers |-> cancelReq[w] \/ wstate[w] # "none"]
  /\ UNCHANGED <<rootIdx, page, news_links, all_links, queue, unfinished, session,
                 wstate, held, wts>>
  /\ UNCHANGED <<storeVars, histVars, fetchLog, inputVars, dbVars>>

Next ==
  \/ MainBuilds
  \/ CrawlStart
  \/ ListingDelay
  \/ ListingAcquire
  \/ ListingRefused
  \/ ListingResponseOk
  \/ ListingResponseFail
  \/ ListingResponseRaises
  \/ \E i \in DOMAIN prod : ProduceDelay(i)
  \/ \E i \in DOMAIN prod : ProduceAcquire(i)
  \/ \E i \in DOMAIN prod : ProduceRefused(i)
  \/ \E i \in DOMAIN prod : \E h \in site.art[all_links[i]] : ProduceResponseOk(i, h)
  \/ \E i \in DOMAIN prod : ProduceResponseFail(i)
  \/ \E i \in DOMAIN prod : ProduceResponseRaises(i)
  \/ CrawlGatherDone
  \/ CrawlGatherRaises
  \/ StartConsumers
  \/ StartConsumersRaises
  \/ JoinReturns
  \/ ConsumersGatherDone
  \/ \E w \in Workers : WorkerWaits(w)
  \/ \E w \in Workers : WorkerGets(w)
  \/ \E w \in Workers : WorkerParsed(w)
  \/ \E w \in Workers : WorkerParseRaises(w)
  \/ \E w \in Workers : WorkerSaved(w)
  \/ \E w \in Workers : WorkerSaveRaises(w)
  \/ \E w \in Workers : WorkerCancelled(w)
  \/ MainEnds
  \/ MainGatherRaises
  \/ MainRaised

Spec == Init /\ [][Next]_vars

\* The same run on hosts and configurations that differ in the number of
\* workers: parsing_workers as configured (0 for automatic) and the CPU
\* count the host reports (0 for None), on one site.
PoolInit ==
  /\ site = CHOOSE st \in Sites : st.base = <<Page(<<1>>, FALSE)>>
  /\ max_pages = 0
  /\ config \in CategoriesChoices
  /\ parsing_workers \in 0..NumWorkers
  /\ cpu_count \in 0..NumWorkers
  /\ Entered

PoolSpec == PoolInit /\ [][Next]_vars

\* A run that main() has started and in which every fetch completes with
\* content or with None and the process pool is created: the steps of Next
\* that make no exception leave fetch_page or the pool's constructor.
RunInit == Init /\ mpc = "running"

RunNext ==
  \/ CrawlStart
  \/ ListingDelay
  \/ ListingAcquire
  \/ ListingResponseOk
  \/ ListingResponseFail
  \/ \E i \in DOMAIN prod : ProduceDelay(i)
  \/ \E i \in DOMAIN prod : ProduceAcquire(i)
  \/ \E i \in DOMAIN prod : \E h \in site.art[all_links[i]] : ProduceResponseOk(i, h)
  \/ \E i \in DOMAIN prod : ProduceResponseFail(i)
  \/ CrawlGatherDone
  \/ StartConsumers
  \/ JoinReturns
  \/ ConsumersGatherDone
  \/ \E w \in Workers : WorkerWaits(w)
  \/ \E w \in Workers : WorkerGets(w)
  \/ \E w \in Workers : WorkerParsed(w)
  \/ \E w \in Workers : WorkerParseRaises(w)
  \/ \E w \in Workers : WorkerSaved(w)
  \/ \E w \in Workers : WorkerSaveRaises(w)
  \/ \E w \in Workers : WorkerCancelled(w)
  \/ MainEnds

\* The positions of the tasks; every step moves the task that takes it.
pcs == <<mpc, cpc, prod, scpc, wstate>>

\* The event loop's scheduling: a task that is ready to run is run and a
\* request that was issued completes, so a step is taken as long as one is
\* possible.
FairSpec == RunInit /\ [][RunNext]_vars /\ WF_pcs(RunNext)

\* ------------------------------------------------------------- NewsStorage calls
\* A NewsStorage used on its own, as the tests, the bot and init_db.py use
\* it: initialize, save_news and get_news called one after the other.
MaxSaves == 2        \* save_news calls of one run
MaxPageSize == 1     \* largest page size asked for
MaxOffset == 1       \* largest offset asked for

\* limit of the query send_news_page counts the total with
TotalLimit == 1000

\* db_path values a NewsStorage is built with.
DbPaths == {"news.db", ":memory:"}

\* The news items handed to save_news.  Sections: "На", "Sc", "a_b", "sc";
\* dates: "10", "2", "1", "10".
NewsItems ==
  { [url |-> 1, title |-> "t1", date |-> <<49, 48>>, section |-> <<1053, 1072>>,
     summary |-> "", content |-> "c1"],
    [url |-> 2, title |-> "t2", date |-> <<50>>, section |-> <<83, 99>>,
     summary |-> "s2", content |-> "c2"],
    [url |-> 3, title |-> "t3", date |-> <<49>>, section |-> <<97, 95, 98>>,
     summary |-> "s3", content |-> "c3"],
    [url |-> 4, title |-> "t4", date |-> <<49, 48>>, section |-> <<115, 99>>,
     summary |-> "s4", content |-> "c4"] }

\* The filters get_news is called with: section none, "на", "sc", "_";
\* start_date none, "10"; end_date none, "10".
SectionFilters == {<<>>, <<1085, 1072>>, <<115, 99>>, <<95>>}
StartDates == {<<>>, <<49, 48>>}
EndDates == {<<>>, <<49, 48>>}
Limits == (1..MaxPageSize) \cup {TotalLimit}
Offsets == 0..MaxOffset

\* The pipeline is not run: the variables of main(), of the fetcher and of
\* the queue manager stay as they are here.
PipelineIdle ==
  /\ site = CHOOSE st \in Sites : st.art[2] = {HtmlV1}
  /\ max_pages = 0
  /\ categories = <<>>
  /\ config = <<>>
  /\ parsing_workers = 0
  /\ cpu_count = NumWorkers
  /\ mpc = "running"
  /\ session = "open"
  /\ cpc = "new"
  /\ rootIdx = 1
  /\ page = 1
  /\ news_links = <<>>
  /\ all_links = <<>>
  /\ prod = <<>>
  /\ sem = Concurrency
  /\ queue = <<>>
  /\ unfinished = 0
  /\ scpc = "new"
  /\ executor = "none"
  /\ wstate = [w \in Workers |-> "none"]
  /\ held = [w \in Workers |-> NoItem]
  /\ cancelReq = [w \in Workers |-> FALSE]
  /\ wts = [w \in Workers |-> 0]
  /\ puts = {}
  /\ deq = <<>>
  /\ acked = <<>>
  /\ outcome = <<>>
  /\ llog = <<>>
  /\ returned = <<>>
  /\ flog = <<>>
  /\ lateGet = FALSE

StoreInit ==
  /\ db_path \in DbPaths
  /\ schema = "none"
  /\ call = NoCall
  /\ saved = {}
  /\ rows = <<>>
  /\ clock = 1
  /\ chat = NoChat
  /\ PipelineIdle

\* await storage.initialize()
Initialize ==
  LET r == CreateTable(Connect(db_path, schema, rows))
  IN  /\ schema' = IF r.err # "none" THEN schema
                   ELSE IF db_path = ":memory:" THEN "discarded" ELSE "file"
      /\ call' = [NoCall EXCEPT !.op = "initialize", !.err = r.err]
      /\ UNCHANGED <<db_path, rows, clock, saved, chat, pipelineVars>>

\* await storage.save_news(a)
CallSaveNews(a) ==
  LET r == StorageSaveNews(Connect(db_path, schema, rows), a, clock)
  IN  /\ clock <= MaxSaves
      /\ clock' = clock + 1
      /\ rows' = IF db_path = ":memory:" THEN rows ELSE r.rows
      /\ call' = [NoCall EXCEPT !.op = "save_news", !.err = r.err, !.item = a]
      /\ saved' = IF schema # "none" /\ \A b \in saved : b.url # a.url
                    THEN saved \cup {a} ELSE saved
      /\ UNCHANGED <<db_path, schema, chat, pipelineVars>>

\* await storage.get_news(section, start_date, end_date, limit, offset)
CallGetNews(section, start_date, end_date, limit, offset) ==
  LET r == GetNews(Connect(db_path, schema, rows), section, start_date, end_date,
                   limit, offset)
  IN  /\ call' = [NoCall EXCEPT !.op = "get_news", !.err = r.err, !.res = r.res,
                                !.section = section, !.start_date = start_date,
                                !.end_date = end_date, !.limit = limit,
                                !.offset = offset]
      /\ UNCHANGED <<db_path, schema, rows, clock, saved, chat, pipelineVars>>

StoreNext ==
  \/ Initialize
  \/ \E a \in NewsItems : CallSaveNews(a)
  \/ \E section \in SectionFilters, start_date \in StartDates, end_date \in EndDates,
        limit \in Limits, offset \in Offsets :
       CallGetNews(section, start_date, end_date, limit, offset)

StoreSpec == StoreInit /\ [][StoreNext]_vars

\* ------------------------------------------------------------- bot
\* The bot's /news command and its pagination buttons, on a database the
\* scraper has filled.  Text is a sequence of code points, as above.
NEWS_PAGE_SIZE == 5
MaxRows == 11        \* rows of the largest table

\* The position of the first c in text s, 0 when there is none.
Find(s, c) ==
  IF \E i \in 1..Len(s) : s[i] = c
    THEN CHOOSE i \in 1..Len(s) : s[i] = c /\ \A j \in 1..(i - 1) : s[j] # c
    ELSE 0

\* s.split("_") for a one-character separator c
RECURSIVE Split(_, _)
Split(s, c) ==
  IF Find(s, c) = 0 THEN <<s>>
  ELSE <<SubSeq(s, 1, Find(s, c) - 1)>> \o Split(SubSeq(s, Find(s, c) + 1, Len(s)), c)

\* sep.join(parts)
RECURSIVE Join(_, _)
Join(parts, sep) ==
  IF parts = <<>> THEN <<>>
  ELSE IF Len(parts) = 1 THEN parts[1]
  ELSE parts[1] \o sep \o Join(Tail(parts), sep)

\* s.startswith(prefix)
StartsWith(s, prefix) == Len(s) >= Len(prefix) /\ SubSeq(s, 1, Len(prefix)) = prefix

\* The decimal digits of a natural number.
RECURSIVE Digits(_)
Digits(n) == IF n < 10 THEN <<48 + n>> ELSE Digits(n \div 10) \o <<48 + (n % 10)>>

\* str(n) of an int, as "{offset}" is formatted
Str(n) == IF n < 0 THEN <<45>> \o Digits(0 - n) ELSE Digits(n)

RECURSIVE DigitsValue(_)
DigitsValue(d) ==
  IF d = <<>> THEN 0 ELSE 10 * DigitsValue(SubSeq(d, 1, Len(d) - 1)) + (d[Len(d)] - 48)

\* int(s): an optional sign and decimal digits; anything else raises
\* ValueError.
ParseInt(s) ==
  LET signed == s # <<>> /\ s[1] \in {43, 45}
      d == IF signed THEN Tail(s) ELSE s
  IN  IF d # <<>> /\ \A i \in 1..Len(d) : d[i] \in 48..57
        THEN [err |-> FALSE,
              val |-> IF signed /\ s[1] = 45 THEN 0 - DigitsValue(d) ELSE DigitsValue(d)]
        ELSE [err |-> TRUE, val |-> 0]

\* str.isalpha(): letters only, at least one (Latin and Cyrillic letters).
IsAlpha(s) ==
  /\ s # <<>>
  /\ \A i \in 1..Len(s) : s[i] \in (65..90) \cup (97..122) \cup (1040..1103)

\* template.format(offset=n): "{{" and "}}" stand for a brace, "{offset}"
\* for str(n); every other replacement field and every single brace raises
\* (KeyError, IndexError or ValueError).
RECURSIVE Format(_, _)
Format(t, n) ==
  IF t = <<>> THEN [err |-> FALSE, text |-> <<>>]
  ELSE IF Head(t) \in {123, 125} /\ Len(t) >= 2 /\ t[2] = Head(t)
    THEN LET r == Format(SubSeq(t, 3, Len(t)), n)
         IN  [err |-> r.err, text |-> <<Head(t)>> \o r.text]
  ELSE IF Head(t) = 125 THEN [err |-> TRUE, text |-> <<>>]
  ELSE IF Head(t) = 123
    THEN IF Find(t, 125) # 0 /\ SubSeq(t, 2, Find(t, 125) - 1) = <<111, 102, 102, 115, 101, 116>>
           THEN LET r == Format(SubSeq(t, Find(t, 125) + 1, Len(t)), n)
                IN  [err |-> r.err, text |-> Str(n) \o r.text]
           ELSE [err |-> TRUE, text |-> <<>>]
  ELSE LET r == Format(Tail(t), n)
       IN  [err |-> r.err, text |-> <<Head(t)>> \o r.text]

\* callback_template of get_pagination_keyboard:
\* "page", "{offset}", "s:...", "sd:...", "ed:..." joined by "_".
CallbackTemplate(section, start_date, end_date) ==
  Join(<<<<112, 97, 103, 101>>, <<123, 111, 102, 102, 115, 101, 116, 125>>>>
         \o (IF section # <<>> THEN <<<<115, 58>> \o section>> ELSE <<>>)
         \o (IF start_date # <<>> THEN <<<<115, 100, 58>> \o start_date>> ELSE <<>>)
         \o (IF end_date # <<>> THEN <<<<101, 100, 58>> \o end_date>> ELSE <<>>),
       <<95>>)

\* `if current_offset > 0:`
OfferBack(current_offset) == current_offset > 0

\* `if current_offset + limit < total_news:`
OfferForward(current_offset, limit, total_news) == current_offset + limit < total_news

\* get_pagination_keyboard: the callback data of the buttons it offers
\* (<<>> for a button it does not offer), or the exception of format().
GetPaginationKeyboard(current_offset, total_news, limit, section, start_date, end_date) ==
  LET template == CallbackTemplate(section, start_date, end_date)
      b == Format(template, current_offset - limit)
      f == Format(template, current_offset + limit)
      failed == \/ OfferBack(current_offset) /\ b.err
                \/ OfferForward(current_offset, limit, total_news) /\ f.err
  IN  [err |-> failed,
       back |-> IF OfferBack(current_offset) /\ ~failed THEN b.text ELSE <<>>,
       forward |-> IF OfferForward(current_offset, limit, total_news) /\ ~failed
                     THEN f.text ELSE <<>>]

\* The loop of cq_page over parts[2:]: the value after the last "s:", "sd:"
\* or "ed:" prefix, <<>> (None) without one.
RECURSIVE FilterOf(_, _)
FilterOf(parts, kind) ==
  IF parts = <<>> THEN <<>>
  ELSE LET part == parts[Len(parts)]
           is == IF StartsWith(part, <<115, 58>>) THEN "s"
                 ELSE IF StartsWith(part, <<115, 100, 58>>) THEN "sd"
                 ELSE IF StartsWith(part, <<101, 100, 58>>) THEN "ed"
                 ELSE "none"
       IN  IF is = kind
             THEN SubSeq(part, (IF kind = "s" THEN 3 ELSE 4), Len(part))
             ELSE FilterOf(SubSeq(parts, 1, Len(parts) - 1), kind)

\* cq_page: what the handler reads from the callback data.
CqPageDecode(data) ==
  LET parts == Split(data, 95)
      n == IF Len(parts) >= 2 THEN ParseInt(parts[2]) ELSE [err |-> TRUE, val |-> 0]
      rest == SubSeq(parts, 3, Len(parts))
  IN  [err |-> n.err, offset |-> n.val,
       section |-> FilterOf(rest, "s"),
       start_date |-> FilterOf(rest, "sd"),
       end_date |-> FilterOf(rest, "ed")]

\* send_news_page: the page of news sent and the keyboard under it.
SendNewsPage(op, section, start_date, end_date, offset) ==
  LET db == Connect(db_path, schema, rows)
      news_items == GetNews(db, section, start_date, end_date, NEWS_PAGE_SIZE, offset)
      total_news == Len(GetNews(db, section, start_date, end_date, TotalLimit, 0).res)
      keyboard == GetPaginationKeyboard(offset, total_news, NEWS_PAGE_SIZE, section,
                                        start_date, end_date)
      asked == [NoChat EXCEPT !.op = op, !.offset = offset, !.section = section,
                              !.start_date = start_date, !.end_date = end_date]
  IN  IF news_items.err # "none" THEN [asked EXCEPT !.err = news_items.err]
      ELSE IF news_items.res = <<>> THEN asked
      ELSE [asked EXCEPT !.shown = Len(news_items.res), !.total = total_news,
                         !.err = IF keyboard.err THEN "FormatError" ELSE "none",
                         !.back = keyboard.back, !.forward = keyboard.forward]

\* cmd_news: /news with the arguments args.
CmdNews(args) ==
  /\ chat' =
       IF Len(args) = 1 /\ ~IsAlpha(args[1]) THEN [NoChat EXCEPT !.op = "rejected"]
       ELSE IF Len(args) = 1 THEN SendNewsPage("news", args[1], <<>>, <<>>, 0)
       ELSE IF Len(args) = 2 THEN SendNewsPage("news", <<>>, args[1], args[2], 0)
       ELSE IF Len(args) = 3 THEN SendNewsPage("news", args[1], args[2], args[3], 0)
       ELSE SendNewsPage("news", <<>>, <<>>, <<>>, 0)
  /\ UNCHANGED <<db_path, schema, rows, clock, saved, call, pipelineVars>>

\* cq_page: a button of the keyboard is pressed.
CqPage(data) ==
  /\ data # <<>>
  /\ LET d == CqPageDecode(data)
     IN  chat' = IF d.err THEN [NoChat EXCEPT !.op = "page", !.err = "ValueError"]
                 ELSE SendNewsPage("page", d.section, d.start_date, d.end_date, d.offset)
  /\ UNCHANGED <<db_path, schema, rows, clock, saved, call, pipelineVars>>

\* The stored news: n rows of one section, dates "10" and "2" in turn.
Table(n, section) ==
  [k \in 1..n |-> [id |-> k, url |-> k, title |-> "t", summary |-> "s",
                   content |-> "c", scraped_at |-> k, section |-> section,
                   date |-> IF k % 2 = 0 THEN <<50>> ELSE <<49, 48>>]]

\* Sections of the stored news: "sc", "a_b", "{x".
TableSections == {<<115, 99>>, <<97, 95, 98>>, <<123, 120>>}

\* The arguments /news is sent with: none; "sc"; "10"; "10" "10";
\* "a_b" "1" "2"; "{x" "1" "2"; "sc" "1" "2" "3".
ArgsChoices ==
  { <<>>,
    <<<<115, 99>>>>,
    <<<<49, 48>>>>,
    <<<<49, 48>>, <<49, 48>>>>,
    <<<<97, 95, 98>>, <<49>>, <<50>>>>,
    <<<<123, 120>>, <<49>>, <<50>>>>,
    <<<<115, 99>>, <<49>>, <<50>>, <<51>>>> }

BotInit ==
  /\ db_path = "news.db"
  /\ schema = "file"
  /\ call = NoCall
  /\ saved = {}
  /\ rows \in {Table(n, section) : n \in 0..MaxRows, section \in TableSections}
  /\ clock = Len(rows) + 1
  /\ chat = NoChat
  /\ PipelineIdle

BotNext ==
  \/ \E args \in ArgsChoices : CmdNews(args)
  \/ \E data \in {chat.back, chat.forward} : CqPage(data)

BotSpec == BotInit /\ [][BotNext]_vars

\* ============================================================= claims
ItemIds == {it.id : it \in puts}

Holds(w) == held[w].id # 0

HeldBy(w, i) == Holds(w) /\ held[w].id = i

Raised(i) == outcome[i] \in {"parse_raised", "save_raised"}

CancelIssued == \E w \in Workers : cancelReq[w]

\* The step of start_consumers that calls task.cancel() on the workers.
CancelStep == scpc \in {"new", "join"} /\ scpc' = "gather"

\* C1: when the run ends, every item ever put on the queue has been
\* dequeued and acknowledged: the queue is empty and its unfinished count
\* is 0.
C1_DrainedAtEnd ==
  mpc = "ended" =>
    /\ queue = <<>>
    /\ unfinished = 0
    /\ \A i \in ItemIds : Len(deq[i]) = 1 /\ acked[i] = 1

\* C2: the workers are cancelled only when crawl() has completed all its
\* article fetches and no queue item is pending.
C2_CancelOnlyAfterProducers ==
  CancelIssued => (cpc = "done" /\ queue = <<>> /\ unfinished = 0)

\* C3: at the step where start_consumers cancels the worker tasks, the
\* unfinished count of the queue is zero.
C3_CancelAtZeroUnfinished == [][CancelStep => unfinished = 0]_vars

\* C3 witness: the workers were cancelled after join() had to wait for
\* items to be processed.
C3_Witness ==
  /\ scpc = "gather"
  /\ \E i \in ItemIds : acked[i] = 1

\* C4: at most `concurrency` fetch_page calls are inside the request
\* section, and the free slots never go negative.
C4_AtMostConcurrencyInFlight == InRequest <= Concurrency /\ sem >= 0

\* C4 witness: every slot is taken and another caller is suspended.
C4_Witness ==
  /\ InRequest = Concurrency
  /\ \E i \in DOMAIN prod : prod[i] = "wait"

UniqueUrls(rs) == \A j, k \in 1..Len(rs) : rs[j].url = rs[k].url => j = k

C6_FirstWriteWins ==
  [][/\ \A k \in 1..Len(rows) : k <= Len(rows') /\ rows'[k] = rows[k]
     /\ \A w \in Workers :
          (wstate[w] = "save" /\ wstate'[w] # "save" /\ UrlStored(rows, held[w].url))
            => rows' = rows]_vars

\* C6 witness: a save_news call returned for an article whose title differs
\* from the stored row of its url.
C6_Witness ==
  \E it \in puts :
    /\ outcome[it.id] = "saved"
    /\ \E k \in 1..Len(rows) :
         rows[k].url = it.url /\ rows[k].title # ParseNewsPage(it.html, it.url).title

\* C7: every dequeued item gets exactly one task_done: never more than
\* one, the one exactly when the loop iteration that took it has ended (with
\* a record, with None or with an exception), none only while the worker
\* that took it still holds it.
C7_ExactlyOneTaskDone ==
  \A i \in ItemIds :
    /\ acked[i] <= 1
    /\ acked[i] = 1 => Len(deq[i]) >= 1 /\ \A w \in Workers : ~HeldBy(w, i)
    /\ (Len(deq[i]) >= 1 /\ acked[i] = 0) => \E w \in Workers : HeldBy(w, i)
    /\ acked[i] = 1 <=> outcome[i] # "pending"

\* C7 witness: one item was acknowledged after an exception and another
\* after the parser returned None.
C7_Witness ==
  \E i, j \in ItemIds :
    /\ Raised(i) /\ acked[i] = 1
    /\ outcome[j] = "parse_none" /\ acked[j] = 1

\* C8: an exception while parsing or saving does not end the worker: a
\* worker leaves its loop only on cancellation.
C8_ExceptionKeepsWorker ==
  \A w \in Workers :
    /\ WorkerFinished(w) => cancelReq[w]
    /\ ~cancelReq[w] => wstate[w] \in {"none", "new", "idle", "parse", "save"}

\* C8 witness: a worker whose earlier item raised holds a later item, and
\* another worker is processing its own item.
C8_Witness ==
  \E w, v \in Workers : \E i, j \in ItemIds :
    /\ w # v
    /\ Raised(i) /\ deq[i] = <<w>>
    /\ i # j /\ HeldBy(w, j)
    /\ Holds(v)

\* C9: no worker has exited while holding an unacknowledged item, and the
\* cancellation never finds a worker holding one.
C9_NoItemDroppedOnCancel ==
  \A w \in Workers :
    /\ WorkerFinished(w) => ~Holds(w)
    /\ cancelReq[w] => ~Holds(w)

\* C10: when start_consumers has returned, every worker task has finished
\* and the pool is shut down; once crawl() has completed as well, no queue
\* item is left unacknowledged.
C10_CleanShutdown ==
  scpc = "done" =>
    /\ \A w \in Workers : WorkerFinished(w)
    /\ executor = "shutdown"
    /\ cpc = "done" => (unfinished = 0 /\ \A i \in ItemIds : acked[i] = 1)

\* C11: a failed fetch only drops its URL: while main() is waiting for its
\* two tasks, neither crawl() nor a produce task has raised, and when
\* crawl() has returned every collected link has been requested.
C11_FetchFailureOnlyDropsUrl ==
  /\ mpc = "running" =>
       (cpc # "failed" /\ \A i \in DOMAIN prod : prod[i] # "failed")
  /\ cpc = "done" => \A i \in DOMAIN prod : Len(flog[i]) = 1

\* The base listing page could not be fetched and no category is configured.
BaseFailedNoCategories ==
  /\ categories = <<>>
  /\ llog = <<[root |-> 1, page |-> 1, res |-> "none"]>>

\* C12 as stated: when the base listing page cannot be fetched and no
\* category is configured, the run ends without a process pool and without
\* worker tasks.
C12_NoConsumersOnStartupFailure ==
  (mpc = "ended" /\ BaseFailedNoCategories) =>
    (executor = "none" /\ \A w \in Workers : wstate[w] = "none")

\* C12 amended: in that case crawl() returns with no link collected and
\* nothing put on the queue, and the run does not end before the consumer
\* side was started: its pool and worker tasks have been created and shut
\* down again, with no item processed and no row stored.
C12_EmptyCrawlStillStartsConsumers ==
  BaseFailedNoCategories =>
    /\ cpc = "done" /\ all_links = <<>> /\ puts = {} /\ queue = <<>> /\ rows = <<>>
    /\ mpc = "ended" =>
         /\ executor = "shutdown"
         /\ \A w \in Workers : WorkerFinished(w) /\ ~Holds(w)

\* C12 witness: such a run has ended.
C12_Witness == mpc = "ended" /\ BaseFailedNoCategories

NoRepeat(s) == \A i, j \in 1..Len(s) : s[i] = s[j] => i = j

\* C13: no list returned by crawl_category, and no list it is building,
\* holds a URL twice.
C13_CategoryLinksUnique ==
  /\ NoRepeat(news_links)
  /\ \A r \in 1..Len(returned) : NoRepeat(returned[r])

\* The listing page the fetch in progress asks for.
CurrentPage == PageAt(site, UrlsToCrawl[rootIdx], page)

\* The anchors of a page whose link is not among the links seen so far.
NewAnchors(pg, seen) == {k \in 1..Len(pg.links) : ~(pg.links[k] \in Range(seen))}

\* A listing fetch ends in this step.
ListingEnded == Len(llog') = Len(llog) + 1

\* crawl_category goes on to the next page of the same category.
NextPageRequested == cpc' = "lsleep" /\ rootIdx' = rootIdx /\ page' = page + 1

\* C14: when the fetch of page N ends, page N+1 of the category is asked
\* for exactly if the fetch succeeded, the page has a link not seen before,
\* it has the load-more button and the cap, when given, is not reached; a
\* first page without links makes crawl_category return the empty list
\* after this one fetch.
C14_NextPageIff ==
  [][ListingEnded =>
       /\ NextPageRequested <=>
            /\ llog'[Len(llog')].res = "ok"
            /\ NewAnchors(CurrentPage, news_links) # {}
            /\ CurrentPage.more
            /\ \/ max_pages = 0
               \/ Len(news_links) + Cardinality(NewAnchors(CurrentPage, news_links))
                    < max_pages
       /\ (llog'[Len(llog')].res = "ok" /\ page = 1 /\ CurrentPage.links = <<>>) =>
            /\ returned' = Append(returned, <<>>)
            /\ \A k \in 1..Len(llog) : llog[k].root # rootIdx]_vars

\* C14 witness: a second page was fetched in one category, and another
\* category returned the empty list after the single fetch of its first,
\* link-less page.
C14_Witness ==
  /\ \E k \in 1..Len(llog) : llog[k].page = 2
  /\ \E r \in 1..Len(returned) :
       /\ returned[r] = <<>>
       /\ \E k \in 1..Len(llog) : llog[k] = [root |-> r, page |-> 1, res |-> "ok"]
       /\ Cardinality({k \in 1..Len(llog) : llog[k].root = r}) = 1

InListing == cpc \in {"lsleep", "lwait", "lreq"}

\* C15: listing pages are fetched one after the other: each fetch that
\* ended is page N+1 of the category whose page N ended just before it with
\* success, or page 1 of the next category; the fetch in progress is for
\* the page after the last one that ended, and every earlier category has
\* returned.
C15_ListingSequential ==
  /\ llog # <<>> => (llog[1].root = 1 /\ llog[1].page = 1)
  /\ \A k \in 2..Len(llog) :
       \/ /\ llog[k].root = llog[k - 1].root
          /\ llog[k].page = llog[k - 1].page + 1
          /\ llog[k - 1].res = "ok"
       \/ /\ llog[k].root = llog[k - 1].root + 1
          /\ llog[k].page = 1
  /\ InListing =>
       /\ Len(returned) = rootIdx - 1
       /\ page = 1 => \A k \in 1..Len(llog) : llog[k].root < rootIdx
       /\ page > 1 => llog[Len(llog)] = [root |-> rootIdx, page |-> page - 1, res |-> "ok"]

\* C15 witness: the first page of the category is being requested after
\* the two pages of the base root were fetched.
C15_Witness ==
  /\ cpc = "lreq"
  /\ rootIdx = 2
  /\ Len(llog) = 2
  /\ llog[2].page = 2

\* C16: produce tasks exist only once link collection is over, one per
\* collected link; no link is requested twice, and when crawl() has
\* returned each was requested once; an item is on record for exactly the
\* links whose fetch returned a body, and it carries that link's URL and
\* that body.
C16_ArticlesAfterCollection ==
  /\ prod # <<>> => (~InListing /\ cpc # "new" /\ Len(prod) = Len(all_links))
  /\ \A i \in DOMAIN prod :
       /\ Len(flog[i]) + (IF prod[i] = "req" THEN 1 ELSE 0) <= 1
       /\ prod[i] \in {"sleep", "wait"} => flog[i] = <<>>
       /\ (\E it \in puts : it.id = i) <=> flog[i] = <<"html">>
  /\ cpc = "done" => \A i \in DOMAIN prod : Len(flog[i]) = 1
  /\ \A it \in puts :
       /\ it.url = all_links[it.id]
       /\ it.html \in site.art[it.url]
       /\ \A other \in puts : other.id = it.id => other = it
  /\ \A k \in 1..Len(queue) : queue[k] \in puts

\* C16 witness: crawl() has returned after one fetch gave a body and
\* another gave none.
C16_Witness ==
  /\ cpc = "done"
  /\ \E i, j \in DOMAIN prod : flog[i] = <<"html">> /\ flog[j] = <<"none">>

C18_SessionCoversFetches ==
  /\ mpc = "running" => session = "open"
  /\ mpc \in {"ended", "failed"} => session = "closed"
  /\ InRequest > 0 => mpc # "ended"
  /\ ~lateGet

\* C19: no queue item is dequeued twice, two workers never hold the same
\* item, and an item that was dequeued is no longer in the queue.
C19_OneWorkerPerItem ==
  /\ \A i \in ItemIds : Len(deq[i]) <= 1
  /\ \A w, v \in Workers : (w # v /\ Holds(w) /\ Holds(v)) => held[w].id # held[v].id
  /\ \A k \in 1..Len(queue) : deq[queue[k].id] = <<>>
  /\ \A w \in Workers : Holds(w) => deq[held[w].id] = <<w>>

\* C19 witness: two workers hold one item each while a third item waits.
C19_Witness ==
  /\ \E w, v \in Workers : w # v /\ Holds(w) /\ Holds(v) /\ ~cancelReq[w]
  /\ queue # <<>>

\* The four key fields as parse_news_page extracts them are all non-empty.
KeyFieldsPresent(h) ==
  /\ ~SoupRaises(h)
  /\ h.title # ""
  /\ h.day # "" \/ h.month # ""
  /\ h.section # ""
  /\ h.content # ""

\* C20: for every page put on the queue, parse_news_page gives a record
\* exactly if title, date, section and content are non-empty, None
\* otherwise (also when parsing raised); a record carries the url it was
\* called with and the extracted fields; a worker saves exactly the pages
\* that gave a record.
C20_RecordIffKeyFields ==
  /\ \A it \in puts :
       LET r == ParseNewsPage(it.html, it.url)
       IN  /\ r # None <=> KeyFieldsPresent(it.html)
           /\ r # None =>
                /\ r.url = it.url
                /\ r.title = it.html.title
                /\ r.section = it.html.section
                /\ r.summary = it.html.summary
                /\ r.content = it.html.content
                /\ r.date # ""
           /\ outcome[it.id] = "parse_none" => ~KeyFieldsPresent(it.html)
           /\ outcome[it.id] \in {"saved", "save_raised"} => KeyFieldsPresent(it.html)
  /\ \A w \in Workers : wstate[w] = "save" => KeyFieldsPresent(held[w].html)
  /\ \A k \in 1..Len(rows) : \E it \in puts :
       /\ KeyFieldsPresent(it.html)
       /\ rows[k].url = it.url
       /\ rows[k].title = it.html.title

\* C20 witness: a page with an empty summary was saved, and a page on
\* which parsing raised gave None.
C20_Witness ==
  \E a, b \in puts :
    /\ a.html = HtmlV1 /\ outcome[a.id] = "saved"
    /\ b.html = HtmlUnparsable /\ outcome[b.id] = "parse_none"

\* The record the parser gives for a queue item.
RecordOf(it) == ParseNewsPage(it.html, it.url)

\* C21: failures show only as absence: every stored row is the record the
\* parser returned for a body that a fetch of its url delivered and a worker
\* dequeued; an item whose parse gives None never reaches save_news, and a
\* link whose fetch gave no body has no item.
C21_FailuresOnlyAbsence ==
  /\ \A k \in 1..Len(rows) : \E it \in puts :
       /\ flog[it.id] = <<"html">>
       /\ deq[it.id] # <<>>
       /\ RecordOf(it) # None
       /\ rows[k].url = RecordOf(it).url
       /\ rows[k].title = RecordOf(it).title
       /\ rows[k].date = RecordOf(it).date
       /\ rows[k].section = RecordOf(it).section
       /\ rows[k].summary = RecordOf(it).summary
       /\ rows[k].content = RecordOf(it).content
  /\ \A it \in puts : RecordOf(it) = None =>
       /\ outcome[it.id] \in {"pending", "parse_none", "parse_raised"}
       /\ \A w \in Workers : HeldBy(w, it.id) => wstate[w] # "save"
  /\ \A i \in DOMAIN flog : flog[i] # <<"html">> => ~(i \in ItemIds)

\* C21 witness: a page without content was parsed to None and acknowledged
\* and the fetch of a link failed, while the store holds a row of another
\* url and none of theirs.
C21_Witness ==
  /\ rows # <<>>
  /\ \E it \in puts :
       /\ it.html = HtmlNoContent
       /\ outcome[it.id] = "parse_none"
       /\ ~UrlStored(rows, it.url)
  /\ \E i \in DOMAIN flog : flog[i] = <<"none">> /\ ~UrlStored(rows, all_links[i])

\* get_news has returned a list.
Returned == call.op = "get_news" /\ call.err = "none"

\* C22: whatever the filters, limit and offset, the list get_news returns is
\* sorted by the stored date text in descending order: no element has a date
\* greater than the element before it.
C22_SortedByDateDesc ==
  Returned =>
    \A k \in 1..(Len(call.res) - 1) : TextLeq(call.res[k + 1].date, call.res[k].date)

\* C22 witness: a query with a section filter returned two rows of different
\* dates, the later-inserted row first.
C22_Witness ==
  /\ Returned
  /\ call.section # <<>>
  /\ Len(call.res) = 2
  /\ call.res[1].id > call.res[2].id
  /\ TextLess(call.res[2].date, call.res[1].date)

\* The ids of the rows of a list.
Ids(rs) == {rs[k].id : k \in 1..Len(rs)}

\* get_news has returned the whole result of its filters.
ReturnedAll == Returned /\ call.limit = TotalLimit /\ call.offset = 0

\* The section of a row contains s when both are lower-cased.
SectionMatches(r, s) == Contains(LowerStr(s), LowerStr(r.section))

\* C23: with a section filter s and a limit large enough, get_news returns
\* exactly the stored rows whose section contains s as a substring when both
\* are compared case-insensitively.
C23_SectionCaseInsensitiveSubstring ==
  (ReturnedAll /\ call.section # <<>> /\ call.start_date = <<>> /\ call.end_date = <<>>)
    => Ids(call.res) = {rows[k].id : k \in {j \in 1..Len(rows) :
                                             SectionMatches(rows[j], call.section)}}

\* The date of a row lies in [start_date, end_date], compared as text.
DateInRange(r, start_date, end_date) ==
  TextLeq(start_date, r.date) /\ TextLeq(r.date, end_date)

\* C24: with start_date and end_date given and a limit large enough,
\* get_news returns exactly the rows whose date text d satisfies
\* start_date <= d <= end_date, both bounds inclusive; with a section filter
\* as well, exactly the rows that satisfy both conditions.
C24_DateRangeInclusive ==
  (ReturnedAll /\ call.start_date # <<>> /\ call.end_date # <<>>)
    => Ids(call.res) =
         {rows[k].id : k \in {j \in 1..Len(rows) :
            /\ DateInRange(rows[j], call.start_date, call.end_date)
            /\ call.section # <<>> => SectionMatches(rows[j], call.section)}}

\* The filters of the last get_news call select an item with these fields.
MatchesFilters(a) ==
  /\ call.section # <<>> => SectionMatches(a, call.section)
  /\ call.start_date # <<>> => TextLeq(call.start_date, a.date)
  /\ call.end_date # <<>> => TextLeq(a.date, call.end_date)

\* C25: round trip: a save_news call on an initialized NewsStorage for a url
\* not stored yet returns, and every later get_news on that NewsStorage whose
\* filters the item matches returns a row with the item's url, title, date,
\* section, summary and content.
C25_RoundTrip ==
  /\ (call.op = "save_news" /\ call.item \in saved) => call.err = "none"
  /\ (call.op = "get_news" /\ call.limit = TotalLimit /\ call.offset = 0) =>
       \A a \in saved : MatchesFilters(a) =>
         /\ call.err = "none"
         /\ \E k \in 1..Len(call.res) :
              /\ call.res[k].url = a.url
              /\ call.res[k].title = a.title
              /\ call.res[k].date = a.date
              /\ call.res[k].section = a.section
              /\ call.res[k].summary = a.summary
              /\ call.res[k].content = a.content

\* What get_news returns for the filters f on the database as it is.
QueryAll(path, sch, rs, f) ==
  GetNews(Connect(path, sch, rs), f[1], f[2], f[3], TotalLimit, 0)

\* C26: initialize() is idempotent: whenever it is called, first or again,
\* before or after saves and queries, it raises no error, leaves the stored
\* rows as they are and, once the table exists, changes the answer of no
\* query.
C26_InitializeIdempotent ==
  [][call'.op = "initialize" =>
       /\ call'.err = "none"
       /\ rows' = rows
       /\ schema # "none" =>
            /\ schema' = schema
            /\ \A f \in SectionFilters \X StartDates \X EndDates :
                 QueryAll(db_path', schema', rows', f) = QueryAll(db_path, schema, rows, f)]_vars

\* C26 witness: initialize() has returned again on a database file that
\* already holds rows.
C26_Witness ==
  /\ call.op = "initialize"
  /\ db_path = "news.db"
  /\ rows # <<>>

RECURSIVE Flatten(_)
Flatten(ss) == IF ss = <<>> THEN <<>> ELSE Head(ss) \o Flatten(Tail(ss))

\* The pages get_news returns for the filters and the limit of the last
\* call at the offsets 0, limit, 2*limit, ..., up to the first offset beyond
\* the stored rows.
PagesOfCall ==
  [k \in 1..(Len(rows) + 1) |->
     GetNews(Connect(db_path, schema, rows), call.section, call.start_date,
             call.end_date, call.limit, (k - 1) * call.limit).res]

\* The full result of the filters of the last call.
FullOfCall ==
  GetNews(Connect(db_path, schema, rows), call.section, call.start_date,
          call.end_date, TotalLimit, 0).res

\* C27: for the store as it is and the filters of a get_news call, the
\* pages at the offsets 0, limit, 2*limit, ... are pairwise disjoint, every
\* page that is followed by a non-empty page has exactly limit rows, and the
\* pages put one after the other are the full filtered result, in order.
C27_PagesPartitionResult ==
  (Returned /\ call.limit <= MaxPageSize) =>
    /\ \A j, k \in DOMAIN PagesOfCall :
         j # k => Ids(PagesOfCall[j]) \cap Ids(PagesOfCall[k]) = {}
    /\ \A j, k \in DOMAIN PagesOfCall :
         (j < k /\ PagesOfCall[k] # <<>>) => Len(PagesOfCall[j]) = call.limit
    /\ Flatten(PagesOfCall) = FullOfCall

\* The listing roots of which a page was requested, by their index.
RootsCrawled == {llog[k].root : k \in 1..Len(llog)}

\* The listing roots the configuration gives: the base URL, then the
\* category URLs.
ConfiguredRoots == <<BaseRoot>> \o config

\* crawl() left its loop because the cap was reached.
CapStopped == max_pages # 0 /\ Len(all_links) >= max_pages

\* C28: the listing roots a run crawls are the base listing URL followed by
\* every category URL of the configuration, in that order and each by one
\* crawl_category call; when the run is over all of them were crawled,
\* unless the max_pages cap stopped the loop.
C28_RootsAreBaseThenCategories ==
  /\ \A r \in RootsCrawled :
       r <= Len(ConfiguredRoots) /\ UrlsToCrawl[r] = ConfiguredRoots[r]
  /\ \A k \in 2..Len(llog) : llog[k - 1].root <= llog[k].root
  /\ Len(returned) <= Len(ConfiguredRoots)
  /\ (mpc \in {"ended", "aborted"} /\ ~CapStopped) =>
       /\ RootsCrawled = 1..Len(ConfiguredRoots)
       /\ Len(returned) = Len(ConfiguredRoots)

\* The article fetches started so far: those that ended and those in the
\* request section.
ArticleFetches(i) == Len(flog[i]) + (IF prod[i] = "req" THEN 1 ELSE 0)

RECURSIVE SumLen(_)
SumLen(ss) == IF ss = <<>> THEN 0 ELSE Len(Head(ss)) + SumLen(Tail(ss))

\* C29: with a positive max_pages, at most max_pages links are kept and at
\* most max_pages article pages are fetched, each link once, and a listing
\* root is explored only while the links the roots before it returned are
\* fewer than max_pages.
C29_CapBoundsArticleFetches ==
  max_pages > 0 =>
    /\ Len(all_links) <= max_pages
    /\ Len(prod) <= max_pages
    /\ \A i \in DOMAIN prod : ArticleFetches(i) <= 1
    /\ Cardinality({i \in DOMAIN prod : ArticleFetches(i) = 1}) <= max_pages
    /\ \A k \in 1..Len(llog) :
         SumLen(SubSeq(returned, 1, llog[k].root - 1)) < max_pages
    /\ (InListing /\ rootIdx > 1) => Len(all_links) < max_pages

\* C29 witness: with max_pages = 1 the base root returned two links; one
\* was kept and fetched, and the configured category was not explored.
C29_Witness ==
  /\ max_pages = 1
  /\ categories # <<>>
  /\ cpc = "done"
  /\ returned = <<<<1, 2>>>>
  /\ Len(prod) = 1
  /\ RootsCrawled = {1}

\* C30: every fetch attempt takes the delay before it goes for a semaphore
\* slot: a task starts each fetch_page call in the delay, waits for a slot
\* only after the delay and is in the request section only after the wait;
\* every attempt that ended, failed ones included, went through them; tasks
\* in the delay or waiting hold no slot.
C30_DelayBeforeAcquire ==
  [][/\ (cpc' # cpc /\ cpc' = "lwait") => cpc = "lsleep"
     /\ (cpc' # cpc /\ cpc' = "lreq") => cpc = "lwait"
     /\ (cpc' # cpc /\ cpc \in {"new", "lreq"} /\ cpc' \in {"lsleep", "lwait", "lreq"})
          => cpc' = "lsleep"
     /\ Len(llog') > Len(llog) => cpc \in {"lwait", "lreq"}
     /\ \A i \in DOMAIN prod' :
          IF i \in DOMAIN prod
            THEN /\ (prod'[i] # prod[i] /\ prod'[i] = "wait") => prod[i] = "sleep"
                 /\ (prod'[i] # prod[i] /\ prod'[i] = "req") => prod[i] = "wait"
                 /\ Len(flog'[i]) > Len(flog[i]) => prod[i] \in {"wait", "req"}
            ELSE prod'[i] = "sleep"
     /\ sem' = Concurrency - InRequest']_vars

\* C30 witness: after a listing fetch that failed, one produce task is in
\* its delay while another is in the request section, holding the one slot
\* that is taken.
C30_Witness ==
  /\ \E k \in 1..Len(llog) : llog[k].res = "none"
  /\ \E i, j \in DOMAIN prod : prod[i] = "sleep" /\ prod[j] = "req"
  /\ sem = Concurrency - 1

\* The listing fetch that ends in this step failed: fetch_page logged the
\* error and gave None.
ListingFailed == ListingEnded /\ llog'[Len(llog')].res = "none"

ArticleUrls == DOMAIN site.art

\* The distinct links crawl_category has collected.
Distinct(links) == Cardinality(Range(links))

\* C32: every time crawl_category goes on to a next page it has just added
\* a URL it had not collected before, so the page number never exceeds the
\* number of distinct URLs collected plus one, which the site's finitely
\* many article URLs bound: the loop ends, load-more button on every page
\* and no max_pages included.
C32_PaginationBoundedByUrls ==
  [][/\ NextPageRequested => Distinct(news_links') > Distinct(news_links)
     /\ Range(news_links') \subseteq ArticleUrls
     /\ page' <= Distinct(news_links') + 1
     /\ page' <= Cardinality(ArticleUrls) + 1]_vars

\* Without a cap, on a base listing whose pages all carry the button,
\* crawl_category asked for page 3, got nothing new and returned both URLs.
C32_Witness ==
  /\ max_pages = 0
  /\ \A n \in 1..3 : PageAt(site, BaseRoot, n).more
  /\ \E k \in 1..Len(llog) : llog[k] = [root |-> 1, page |-> 3, res |-> "ok"]
  /\ Len(returned) >= 1
  /\ returned[1] = <<1, 2>>

\* crawl(), start_consumers() and main() have returned.
RunReturned == mpc = "ended" /\ cpc = "done" /\ scpc = "done"

\* C33: when every fetch completes, with content or with None, the run
\* main() started terminates in every fair interleaving: crawl() and
\* start_consumers() both return, and main() with them.
C33_RunTerminates == <>RunReturned

\* A run with a category, two pages of the base listing and both article
\* fetches done has returned, its workers having processed an item.
C33_Witness ==
  /\ RunReturned
  /\ categories # <<>>
  /\ \E k \in 1..Len(llog) : llog[k].page = 2
  /\ Len(prod) = 2
  /\ rows # <<>>

\* crawl() has ended: it returned, raised or was cancelled.
CrawlEnded == cpc \in {"done", "failed", "cancelled"}

\* C34: every slot fetch_page takes is given back on each of its exit
\* paths: the free slots and the fetches inside the request section add up
\* to the configured concurrency, and every slot is free once crawl() has
\* ended.
C34_SlotsReleasedOnEveryExit ==
  /\ sem + InRequest = Concurrency
  /\ CrawlEnded => sem = Concurrency

RECURSIVE SumOver(_, _)
SumOver(f, ids) ==
  IF ids = {} THEN 0
  ELSE LET i == CHOOSE x \in ids : TRUE IN f[i] + SumOver(f, ids \ {i})

\* The task_done calls made so far, and the items dequeued so far.
TaskDoneCalls == SumOver(acked, ItemIds)
Dequeued == SumOver([i \in ItemIds |-> Len(deq[i])], ItemIds)

\* The workers that hold an item they have not acknowledged.
Holding == {w \in Workers : held[w] # NoItem}

\* C35: the workers have called task_done at most once per item they
\* dequeued; the unfinished count is the number of items put minus the
\* task_done calls, never negative, and at least the number of held items,
\* so no task_done call finds the count at zero.
C35_TaskDoneAtMostDequeued ==
  /\ \A i \in ItemIds : acked[i] <= Len(deq[i])
  /\ TaskDoneCalls <= Dequeued
  /\ unfinished = Cardinality(puts) - TaskDoneCalls
  /\ unfinished >= Cardinality(Holding)

\* Two items were dequeued, one was acknowledged through the exception
\* handler, the other is still held.
C35_Witness ==
  /\ Dequeued = 2
  /\ TaskDoneCalls = 1
  /\ \E i \in ItemIds : outcome[i] \in {"parse_raised", "save_raised"}
  /\ Cardinality(Holding) = 1
  /\ unfinished = 1

\* The items worker w has dequeued and not acknowledged.
Unacked(w) ==
  {i \in ItemIds : Len(deq[i]) > acked[i] /\ deq[i][Len(deq[i])] = w}

\* The consume tasks start_consumers has created.
WorkerTasks == {w \in DOMAIN wstate : wstate[w] # "none"}

\* The number of worker tasks the configuration asks for: parsing_workers
\* when positive, otherwise the CPU count of the host, and 1 when the host
\* reports none.
ExpectedWorkers ==
  IF parsing_workers > 0 THEN parsing_workers
  ELSE IF cpu_count >= 1 THEN cpu_count ELSE 1

\* C36: a worker holds at most one dequeued, unacknowledged item, so the
\* items being parsed or saved are at most as many as the worker tasks;
\* start_consumers creates parsing_workers tasks when that is positive and
\* otherwise as many as the host has CPUs, at least one.
C36_InFlightAtMostWorkers ==
  /\ \A w \in DOMAIN wstate : Cardinality(Unacked(w)) <= 1
  /\ Dequeued - TaskDoneCalls <= ExpectedWorkers
  /\ Cardinality({w \in DOMAIN wstate : wstate[w] \in {"parse", "save"}}) <= ExpectedWorkers
  /\ scpc \in {"join", "gather", "done"} => Cardinality(WorkerTasks) = ExpectedWorkers
  /\ ExpectedWorkers >= 1

\* parsing_workers is 0 and the host reports no CPU count: the one worker
\* created holds the first of two items while the second waits.
C36_Witness ==
  /\ parsing_workers = 0
  /\ cpu_count = 0
  /\ Cardinality(WorkerTasks) = 1
  /\ Cardinality(Unacked(1)) = 1
  /\ wstate[1] = "save"
  /\ Len(queue) = 1

\* The produce tasks created for url u.
TasksFor(u) == {i \in DOMAIN prod : all_links[i] = u}

\* The rows stored for url u.
RowsFor(u) == {k \in 1..Len(rows) : rows[k].url = u}

\* The url was returned by crawl_category for two different listing roots.
UnderTwoRoots(u) ==
  \E r, q \in 1..Len(returned) : r # q /\ u \in Range(returned[r]) /\ u \in Range(returned[q])

PageSent == chat.op \in {"news", "page"} /\ chat.shown > 0

\* C38: on every page reached from /news by the buttons offered, the
\* offset is a non-negative multiple of the page size below the total
\* count, the Back button is offered exactly when offset > 0 and the Forward
\* button exactly when offset + page size < total.
C38_OffsetsAndButtons ==
  PageSent =>
    /\ chat.offset >= 0
    /\ chat.offset % NEWS_PAGE_SIZE = 0
    /\ chat.offset < chat.total
    /\ chat.back # <<>> <=> chat.offset > 0
    /\ chat.forward # <<>> <=> chat.offset + NEWS_PAGE_SIZE < chat.total

\* What cq_page has to read from a button that leads to offset n of the
\* page shown.
Target(n) ==
  [err |-> FALSE, offset |-> n, section |-> chat.section,
   start_date |-> chat.start_date, end_date |-> chat.end_date]

\* C39: the callback data of each button offered decodes, in cq_page, to
\* the offset the button stands for and to the section, start_date and
\* end_date the page was asked with.
C39_CallbackRoundTrip ==
  PageSent =>
    /\ chat.back # <<>> => CqPageDecode(chat.back) = Target(chat.offset - NEWS_PAGE_SIZE)
    /\ chat.forward # <<>> =>
         CqPageDecode(chat.forward) = Target(chat.offset + NEWS_PAGE_SIZE)

====
